---- MODULE Spec2Model ----
(***************************************************************************)
(* A model of rings-node's negotiation core:                               *)
(*   - the WASM transport (bns-core/src/transports/wasm.rs): start,        *)
(*     setup_channel, the negotiation calls, the handler registrations,    *)
(*     and the signed trickle handshake (get_handshake_info /              *)
(*     register_remote_info), for one instance and for two peers;          *)
(*   - the backend dispatcher (src/backend/mod.rs): custom_message and     *)
(*     HttpServer::execute;                                                *)
(*   - the event channel (bns-core/src/channels/default.rs): AcChannel.    *)
(* The components share no state, so each has specifications of its own    *)
(* (Spec, TransportSpec, HandshakeSpec, ExchangeSpec; BackendSpec;         *)
(* ChannelSpec, ChannelLifeSpec) over the module's variables; the          *)
(* variables of the other components stay at their initial values.         *)
(***************************************************************************)
EXTENDS Integers, Sequences, FiniteSets, TLC

\* ---------------------------------------------------------------- bounds
\* Operations performed on the transport instance in one behaviour.
MaxSteps == 4
\* Handshake steps (start, outbound, inbound) in one behaviour of the exchange.
MaxExchange == 3
\* Longest candidate list carried by an inbound TricklePayload.
MaxCands == 2
\* Inbound custom messages handled by the dispatcher in one behaviour.
MaxMsgs == 2
\* Largest capacity given to AcChannel::new.
Capacity == 2
\* Events sent into the event channel in one behaviour.
MaxSends == 3

\* ---------------------------------------------------------------- options
\* Option<T>: None is the empty sequence, Some(x) the one-element sequence.
NoneV == <<>>
Some(x) == <<x>>
IsSome(o) == o # <<>>
Unwrap(o) == o[1]

VARIABLES
    \* ---- WasmTransport (wasm.rs:70-76) and the native connection behind it
    connection,          \* Option<Arc<RtcPeerConnection>>: 0 = None, else the connection's id
    pending_candidates,  \* Arc<Vec<RtcIceCandidate>>
    channel,             \* Option<Arc<RtcDataChannel>>: 0 = None, else the channel's id
    nconn,               \* native: connections created so far
    nativeChannels,      \* native: data channels created and not closed, [id, conn, name]
    localDescription,    \* native: Option of the description installed as local
    remoteDescription,   \* native: Option of the description installed as remote
    remoteCandidates,    \* native: candidates accepted by add_ice_candidate, in order
    slots,               \* native handler slots, per event kind: None or the function installed
    raised,              \* native events raised on the instance's connection and channel, in order
    discovered,          \* local candidates the native layer raised icecandidate events for
    last,                \* outcome of the last operation on the instance
    steps,               \* operations performed so far
    signaler,            \* events pushed to the instance's signaler channel, in order
    inflight,            \* per caller slot: the negotiation call suspended at an await, if any
    \* ---- Backend (backend/mod.rs:27-29) and its in-flight custom_message calls
    http_server,         \* Backend.http_server: Option<HttpServer>
    nmsg,                \* inbound custom messages received so far
    task,                \* per inbound message: ctx, msg, pc, locals (failed: execute returned
                         \* Err; served: what the local service answered, once read in full;
                         \* out: the message built for send_report_message)
    outbox,              \* messages handed to send_report_message, in order
    localRequests,       \* requests issued to the local HTTP service, in order
    \* ---- AcChannel (channels/default.rs:9-12)
    bounded,             \* what ac::bounded(buffer) made: the capacity, whether new returned
                         \* or panicked, whether the queue has been closed by close()
    queue,               \* the bounded queue shared by all handles
    sending,             \* per sender handle: the event of its suspended send, if any
    receiving,           \* the receiver handles suspended in recv
    nsends,              \* send calls made so far
    sentLog,             \* events in the order their sends completed
    recvLog,             \* (receiver, event) in the order the recvs completed
    alive,               \* the sender and receiver handles not yet dropped
    failures,            \* the send / recv calls that returned Err, each with whether a sender
                         \* and a receiver handle was alive then, the events queued, the close flag
                         \* (n tells failed sends apart; repeated failed recvs are one entry)
    \* ---- two transport instances, A and B, exchanging handshake envelopes
    exchange             \* the two peers, the envelopes in flight, the steps taken

transportVars == <<connection, pending_candidates, channel, nconn, nativeChannels,
                   localDescription, remoteDescription, remoteCandidates,
                   slots, raised, discovered, last, steps, signaler, inflight>>
backendVars == <<http_server, nmsg, task, outbox, localRequests>>
channelVars == <<bounded, queue, sending, receiving, nsends, sentLog, recvLog, alive, failures>>
vars == <<transportVars, backendVars, channelVars, exchange>>

\* ================================================================ JS values
\* A JsValue is a JS string or a JS object; the transport only tells them apart
\* through as_string() and toString().
JsStr(s) == [js |-> "string", s |-> s, class |-> ""]
JsObj(class, s) == [js |-> "object", s |-> s, class |-> class]

\* JsValue::as_string: Some for a JS string, None for anything else.
as_string(v) == IF v.js = "string" THEN Some(v.s) ELSE NoneV

\* Object.prototype.toString through js_sys::Object::to_string: a string is its
\* own text, an object prints its class tag, never its content.
to_string(v) == IF v.js = "string" THEN v.s ELSE "[object " \o v.class \o "]"

\* SdpString::try_from(JsValue)
SdpString_try_from(v) == as_string(v)

\* From<SdpString> for RtcSessionDescription: the string wrapped as a JsValue.
Sdp_from_SdpString(s) == JsStr(s)

Sdps == {"sdpA", "sdpB"}
Cands == {"c1", "c2"}
\* What the native create_offer / create_answer promise can resolve to.
NativeDescs == {JsStr(s) : s \in Sdps} \cup {JsObj("Object", "sdpA")}
\* A locally discovered candidate, as the native layer hands it over.
LocalCand(c) == JsObj("RTCIceCandidate", c)

RECURSIVE MapToString(_)
MapToString(cs) ==
    IF cs = <<>> THEN <<>> ELSE <<to_string(Head(cs))>> \o MapToString(Tail(cs))

\* ================================================================ signing
Keys == {"K1", "K2"}
Address(k) == IF k = "K1" THEN "addr1" ELSE "addr2"

\* serde serialization of a TricklePayload: the sdp, then the candidates in order.
Serialize(p) == <<p.sdp>> \o p.candidates
Deserialize(b) == [sdp |-> Head(b), candidates |-> Tail(b)]

\* SigMsg::new(data, key): the payload, the signer's identity, and a signature
\* over the serialized payload.
SigMsgNew(data, key) ==
    [data |-> data, addr |-> Address(key),
     sig |-> [wf |-> TRUE, by |-> key, over |-> Serialize(data)]]

\* SigMsg::verify: "err" for a malformed signature, else whether the signature
\* over the carried payload bytes recovers to the carried signer identity.
verify(m) ==
    IF ~m.sig.wf THEN "err"
    ELSE IF m.sig.over = Serialize(m.data) /\ Address(m.sig.by) = m.addr
         THEN "true" ELSE "false"

\* Encoded: the transmissible form of a SigMsg, and its decoding (None when the
\* text is not an encoded SigMsg).
Encode(m) == <<m.addr, m.sig, Serialize(m.data)>>
Decode(e) ==
    IF Len(e) = 3 /\ Len(e[3]) >= 1
    THEN Some([data |-> Deserialize(e[3]), addr |-> e[1], sig |-> e[2]])
    ELSE NoneV

\* ================================================================ transport
SdpTypes == {"offer", "answer", "pranswer", "rollback"}
ChannelNames == {"bns", "aux"}
\* Candidate lists an inbound payload can carry: the first n of c1, c2, c3, ...
\* and one list out of that order.
CandLists ==
    {SubSeq(<<"c1", "c2", "c3", "c4">>, 1, n) : n \in 0..MaxCands} \cup {<<"c2", "c1">>}

Payloads == [sdp : Sdps, candidates : CandLists]

\* What the network can do to an envelope between signing and delivery.
Tampers == {"none", "payload", "signer", "badsig"}
Tamper(m, how) ==
    CASE how = "payload" -> [m EXCEPT !.data.sdp = IF @ = "sdpA" THEN "sdpB" ELSE "sdpA"]
      [] how = "signer" -> [m EXCEPT !.addr = Address(IF m.sig.by = "K1" THEN "K2" ELSE "K1")]
      [] how = "badsig" -> [m EXCEPT !.sig.wf = FALSE]
      [] OTHER -> m

\* The record kept of the last operation on the instance.
Outcome(op, status) ==
    [op |-> op, status |-> status, payload |-> NoneV, encoded |-> NoneV,
     signed |-> NoneV, verify |-> "n/a", tamper |-> "n/a", calls |-> <<>>,
     discovered |-> <<>>, kind |-> "", returned |-> NoneV, native |-> <<>>]

\* The native events handlers are registered for: three on the connection
\* (onicecandidate, oniceconnectionstatechange, ondatachannel), two on the
\* data channel (onmessage, onopen).
ConnKinds == {"icecandidate", "iceconnectionstatechange", "datachannel"}
ChanKinds == {"message", "open"}
EventKinds == ConnKinds \cup ChanKinds
\* The handlers a caller passes to the registrations.
Handlers == {"h1", "h2"}

\* The futures that can be in flight on the instance at a time.
Callers == {"t1", "t2"}
\* No call is in flight on the instance.
Quiet == \A c \in Callers : inflight[c] = NoneV

TransportInit ==
    /\ connection = 0
    /\ pending_candidates = <<>>
    /\ channel = 0
    /\ nconn = 0
    /\ nativeChannels = {}
    /\ localDescription = NoneV
    /\ remoteDescription = NoneV
    /\ remoteCandidates = <<>>
    /\ slots = [k \in EventKinds |-> NoneV]
    /\ raised = <<>>
    /\ discovered = <<>>
    /\ last = Outcome("new", "ok")
    /\ steps = 0
    /\ signaler = <<>>
    /\ inflight = [c \in Callers |-> NoneV]

\* RtcPeerConnection::create_data_channel: one more channel on that connection.
create_data_channel(chans, conn, name) ==
    chans \cup {[id |-> Cardinality(chans) + 1, conn |-> conn, name |-> name]}

\* WasmTransport::setup_channel as a function of the instance's connection:
\* the new values of <<self.channel, native channels>>.
setup_channel(conn, chan, chans, name) ==
    IF conn # 0
    THEN <<Cardinality(chans) + 1, create_data_channel(chans, conn, name)>>
    ELSE <<chan, chans>>

\* start(stun): the connection is whatever new_with_configuration(..).ok() gives,
\* then setup_channel("bns"); the result is Ok(()) either way. (start takes
\* &mut self: no call borrowing the instance is in flight.)
Start(nativeOk) ==
    /\ steps < MaxSteps
    /\ Quiet
    /\ LET conn == IF nativeOk THEN nconn + 1 ELSE 0
           sc == setup_channel(conn, channel, nativeChannels, "bns")
       IN /\ connection' = conn
          /\ nconn' = IF nativeOk THEN nconn + 1 ELSE nconn
          /\ channel' = sc[1]
          /\ nativeChannels' = sc[2]
          \* a new connection and a new channel come without handlers
          /\ slots' = [k \in EventKinds |->
                         IF nativeOk THEN NoneV ELSE slots[k]]
          /\ IF nativeOk
             THEN /\ localDescription' = NoneV
                  /\ remoteDescription' = NoneV
                  /\ remoteCandidates' = <<>>
                  /\ discovered' = <<>>
             ELSE UNCHANGED <<localDescription, remoteDescription, remoteCandidates,
                              discovered>>
    /\ last' = Outcome("start", "ok")
    /\ steps' = steps + 1
    /\ UNCHANGED <<pending_candidates, raised, signaler, inflight, backendVars, channelVars,
                   exchange>>

\* setup_channel(name) called on the instance (&mut self, as start).
SetupChannel(name) ==
    /\ steps < MaxSteps
    /\ Quiet
    /\ LET sc == setup_channel(connection, channel, nativeChannels, name)
       IN /\ channel' = sc[1]
          /\ nativeChannels' = sc[2]
    \* the instance now holds a new channel, which has no handlers yet
    /\ slots' = [k \in EventKinds |->
                   IF connection # 0 /\ k \in ChanKinds THEN NoneV ELSE slots[k]]
    /\ last' = Outcome("setup_channel", "ok")
    /\ steps' = steps + 1
    /\ UNCHANGED <<connection, pending_candidates, nconn, localDescription,
                   remoteDescription, remoteCandidates, raised, discovered,
                   signaler, inflight, backendVars, channelVars, exchange>>

\* A registration: let callback = Closure::wrap(..f..); target.set_on..(Some(
\* callback.as_ref().unchecked_ref())); Ok(()). The slot then holds the JS
\* function of a Closure that went out of scope when the registration
\* returned. Without a target the registration fails and installs nothing.
\* (n numbers the registrations made for the kind on that target.)
installed(h, n) == [h |-> h, f |-> "held", closure |-> "dropped", n |-> n]
register(target, slot, h) ==
    IF target # 0
    THEN [status |-> "ok",
          slot |-> Some(installed(h, IF IsSome(slot) THEN Unwrap(slot).n + 1 ELSE 1))]
    ELSE [status |-> "err", slot |-> slot]

\* The body of the closure: let mut f = f.take().unwrap(); spawn_local(f(ev)).
\* (on_open's Closure::once consumes f the same way.)
closure_body(fn) ==
    IF fn.f = "held"
    THEN [result |-> "invoked", fn |-> [fn EXCEPT !.f = "taken"]]
    ELSE [result |-> "panic", fn |-> fn]

\* The native layer calls the installed JS function: the function of a dropped
\* Closure throws instead of entering the closure's body.
call(fn) ==
    IF fn.closure = "dropped" THEN [result |-> "throw", fn |-> fn]
    ELSE closure_body(fn)

\* The object a handler of kind k is installed on: the connection or the channel.
Target(k) == IF k \in ConnKinds THEN connection ELSE channel

\* on_ice_candidate / on_peer_connection_state_change / on_data_channel /
\* on_message / on_open with handler h.
Register(k, h) ==
    /\ steps < MaxSteps
    /\ LET r == register(Target(k), slots[k], h)
       IN /\ slots' = [slots EXCEPT ![k] = r.slot]
          /\ last' = [Outcome("on_" \o k, r.status) EXCEPT !.kind = k]
    /\ steps' = steps + 1
    /\ UNCHANGED <<connection, pending_candidates, channel, nconn, nativeChannels,
                   localDescription, remoteDescription, remoteCandidates, raised,
                   discovered, signaler, inflight, backendVars, channelVars, exchange>>

\* The handler built by on_ice_candidate_callback: it ignores the candidate.
on_ice_candidate_callback(pending, c) == pending

\* Events::ReceiveMsg(msg)
ReceiveMsg(s) == [tag |-> "ReceiveMsg", data |-> s]
\* sender.send(e) on the sender of the signaler channel: Ok and e joins the
\* queue, or Err (the channel refuses the event) and the queue stays.
signaler_send(q, e, accepted) ==
    IF accepted THEN [ok |-> TRUE, queue |-> Append(q, e)] ELSE [ok |-> FALSE, queue |-> q]
\* The handler built by on_message_callback, called with message data msg:
\* msg.as_string().unwrap() panics on data that is not a JS string; a string is
\* sent to the signaler channel as Events::ReceiveMsg, and the unwrap of the
\* send's result panics when the channel refused it. (The future the handler
\* returns has no await; it is taken together with the handler.)
on_message_callback(q, msg, accepted) ==
    IF ~IsSome(as_string(msg)) THEN [result |-> "panic", signaler |-> q]
    ELSE LET sent == signaler_send(q, ReceiveMsg(Unwrap(as_string(msg))), accepted)
         IN [result |-> IF sent.ok THEN "invoked" ELSE "panic", signaler |-> sent.queue]
\* What a data channel delivers: text messages and a binary one.
Messages == {JsStr("a"), JsStr("b"), JsObj("ArrayBuffer", "a")}

\* The native layer raises an event of kind k carrying ev on the instance's
\* connection or channel; the function installed for k, if any, is called.
\* (accepted: whether the signaler channel takes an event sent to it.)
NativeEvent(k, ev, accepted) ==
    /\ steps < MaxSteps
    /\ Target(k) # 0
    /\ IsSome(slots[k])
    /\ LET c == call(Unwrap(slots[k]))
           m == on_message_callback(signaler, ev, accepted)
           r == IF k = "message" /\ c.result = "invoked"
                THEN [c EXCEPT !.result = m.result] ELSE c
       IN /\ slots' = [slots EXCEPT ![k] = Some(r.fn)]
          /\ raised' = Append(raised, [kind |-> k, ev |-> ev,
                                        h |-> Unwrap(slots[k]).h, n |-> Unwrap(slots[k]).n,
                                        result |-> r.result])
          /\ signaler' = IF k = "message" /\ c.result = "invoked"
                         THEN m.signaler ELSE signaler
          /\ pending_candidates' =
                IF k = "icecandidate" /\ r.result = "invoked"
                THEN on_ice_candidate_callback(pending_candidates, LocalCand(ev))
                ELSE pending_candidates
          /\ last' = [Outcome(k, IF r.result = "invoked" THEN "ok" ELSE r.result)
                        EXCEPT !.kind = k]
    /\ discovered' = IF k = "icecandidate" THEN Append(discovered, ev) ELSE discovered
    /\ steps' = steps + 1
    /\ UNCHANGED <<connection, channel, nconn, nativeChannels, localDescription,
                   remoteDescription, remoteCandidates, inflight, backendVars,
                   channelVars, exchange>>


\* ---------------------------------------------------------------- calls in flight
\* The negotiation calls are async fns on &self: a call runs until it awaits a
\* promise of the native layer, stays suspended there while native events,
\* registrations and other calls on the same instance run, and goes on when
\* the promise settles. The settling of the promise and the poll that it wakes
\* are one step: the waker runs the future before the event loop turns to the
\* next native task.

\* A native call handed to the connection.
NativeCall(fn, arg) == [fn |-> fn, arg |-> arg]

\* A call in flight: the outcome it has built so far (out), the promise it
\* awaits (pc), and its locals: the signing key, the created description (v),
\* the argument of the native call awaited (arg), the candidates still to be
\* added (rest).
NewCall(op, kind) ==
    [out |-> [Outcome(op, "pending") EXCEPT !.kind = kind], pc |-> "new",
     key |-> "", v |-> NoneV, arg |-> "", rest |-> <<>>]
\* The call returns with status.
Return(fut, status) == [fut EXCEPT !.pc = "returned", !.out.status = status]
\* The call hands fn(arg) to the connection and awaits its promise.
Await(fut, pc, fn, arg) ==
    [fut EXCEPT !.pc = pc, !.arg = arg, !.out.calls = Append(@, NativeCall(fn, arg))]
\* The promise the call awaits has settled.
Settled(fut, ok) ==
    [fut EXCEPT !.out.native = Append(@, IF ok THEN "ok" ELSE "reject")]

\* set_local_description / set_remote_description up to the await of the
\* native promise: without a connection an error; else the SdpString is turned
\* into an Sdp (desc.into()), the native argument is built from it (trap: the
\* binding fails there, nothing reaches the connection) and handed over.
\* First a variant that does not look for the connection; then the transport's.
set_description_unchecked(fut, conn, fn, s, trap) ==
    IF trap THEN Return(fut, "panic")
    ELSE Await(fut, fn, fn, s)
set_description(fut, conn, fn, s, trap) ==
    IF conn = 0 THEN Return(fut, "err")
    ELSE IF trap THEN Return(fut, "panic")
    ELSE Await(fut, fn, fn, s)

\* add_ice_candidate(candidate) up to the await of the native promise.
add_ice_candidate(fut, conn, c) ==
    IF conn = 0 THEN Return(fut, "err")
    ELSE Await(fut, "add_ice_candidate", "add_ice_candidate", c)

\* get_offer / get_answer up to the await of the create promise.
get_sdp(fut, conn) ==
    IF conn = 0 THEN Return(fut, "err")
    ELSE Await(fut, "create", "create_" \o fut.out.kind, "")

\* match kind { Answer => get_answer, Offer => get_offer, _ => return Err }
supported_any(kind) == TRUE
supported(kind) == kind \in {"offer", "answer"}

\* get_handshake_info(key, kind) up to its first await.
get_handshake_info(fut, conn) ==
    IF ~supported(fut.out.kind) THEN Return(fut, "err")
    ELSE get_sdp(fut, conn)

\* The create promise settled (resolved to v when ok): Err on a rejection and
\* on a value SdpString::try_from refuses; else on to set_local_description.
created(fut, conn, ok, v, trap) ==
    LET c == Settled(fut, ok)
    IN IF ~ok THEN Return(c, "err")
       ELSE IF ~IsSome(SdpString_try_from(v)) THEN Return(c, "err")
       ELSE set_description([c EXCEPT !.v = Some(v)], conn, "set_local_description",
                            Unwrap(SdpString_try_from(v)), trap)

\* TricklePayload { sdp: sdp.to_string().into(), candidates: pending as strings }
TricklePayload(sdp, pending) ==
    [sdp |-> to_string(sdp), candidates |-> MapToString(pending)]

\* SigMsg::new(data, key)?.try_into()?
SignedEnvelope(data, key) == Encode(SigMsgNew(data, key))

\* The rest of get_handshake_info once get_offer / get_answer returned Ok: the
\* pending candidates are read, the payload is built and signed; signedOk is
\* whether SigMsg::new and the encoding returned Ok. (disc: the candidates the
\* native layer has discovered by now.)
handshake_payload(fut, pending, signedOk, disc) ==
    LET data == TricklePayload(Unwrap(fut.v), pending)
        c == [fut EXCEPT !.out.payload = Some(data), !.out.discovered = disc]
    IN IF signedOk
       THEN Return([c EXCEPT !.out.returned = fut.v,
                             !.out.encoded = Some(SignedEnvelope(data, fut.key))], "ok")
       ELSE Return(c, "err")

\* get_offer_str / get_answer_str once get_offer / get_answer returned Ok: the
\* sdp getter of the binding is read on the returned value, which gives the
\* text or fails inside the binding.
sdp_text(fut, getterOk) ==
    IF getterOk
    THEN Return([fut EXCEPT !.out.returned = Some(JsStr(to_string(Unwrap(fut.v))))], "ok")
    ELSE Return(fut, "panic")

\* What the caller of set_local_description makes of its result: first a
\* variant that drops it, then the transport's `.await?`.
set_local_result_dropped(ok) == "ok"
set_local_result(ok) == IF ok THEN "ok" ELSE "err"


\* The set_local_description promise settled: the native layer installed the
\* description when ok; the call goes on after the await.
local_description_set(fut, inst, ok, fin, disc) ==
    LET c == Settled(fut, ok)
        i == IF ok THEN [inst EXCEPT !.localDescription = Some(Sdp_from_SdpString(fut.arg))]
             ELSE inst
    IN [inst |-> i,
        call |-> IF c.out.op = "set_local_description"
                 THEN Return(c, IF ok THEN "ok" ELSE "err")
                 ELSE IF set_local_result(ok) = "err" THEN Return(c, "err")
                 ELSE IF c.out.op \in {"get_offer", "get_answer"}
                      THEN Return([c EXCEPT !.out.returned = c.v], "ok")
                 ELSE IF c.out.op \in {"get_offer_str", "get_answer_str"} THEN sdp_text(c, fin)
                 ELSE handshake_payload(c, i.pending_candidates, fin, disc)]

\* A gate that lets Ok(false) through: only a verification error stops it.
VerifiedLax(m) == verify(m) # "err"
\* match data.verify() { Ok(true) => apply, _ => Err }
Verified(m) == verify(m) = "true"

\* register_remote_info(data) up to its first await: the envelope is decoded
\* and verified, then set_remote_description is called with the payload's sdp.
register_remote_info(fut, conn, e, trap) ==
    IF ~IsSome(Decode(e)) THEN Return(fut, "err")
    ELSE LET m == Unwrap(Decode(e))
             c == [fut EXCEPT !.out.verify = verify(m)]
         IN IF ~Verified(m) THEN Return(c, "err")
            ELSE set_description([c EXCEPT !.out.payload = Some(m.data),
                                           !.rest = m.data.candidates],
                                 conn, "set_remote_description", m.data.sdp, trap)

\* for c in data.data.candidates { self.add_ice_candidate(c).await? }: the
\* next turn of the loop, or Ok(()) after the last.
next_candidate(fut, conn) ==
    IF fut.rest = <<>> THEN Return(fut, "ok")
    ELSE add_ice_candidate([fut EXCEPT !.rest = Tail(@)], conn, Head(fut.rest))

\* The set_remote_description promise settled.
remote_description_set(fut, inst, ok) ==
    LET c == Settled(fut, ok)
        i == IF ok THEN [inst EXCEPT !.remoteDescription = Some(Sdp_from_SdpString(fut.arg))]
             ELSE inst
    IN [inst |-> i,
        call |-> IF ~ok THEN Return(c, "err")
                 ELSE IF c.out.op = "set_remote_description" THEN Return(c, "ok")
                 ELSE next_candidate(c, i.connection)]

\* What register_remote_info makes of the result of one add_ice_candidate:
\* first a best-effort loop, which goes on after a rejection; then the
\* transport's `.await?`, which stops at it.
add_result_best_effort(ok) == "ok"
add_result(ok) == IF ok THEN "ok" ELSE "err"

\* The add_ice_candidate promise settled: the native layer took the candidate
\* when ok.
candidate_added(fut, inst, ok) ==
    LET c == Settled(fut, ok)
        i == IF ok THEN [inst EXCEPT !.remoteCandidates = Append(@, fut.arg)] ELSE inst
    IN [inst |-> i,
        call |-> IF c.out.op = "add_ice_candidate"
                 THEN Return(c, IF ok THEN "ok" ELSE "err")
                 ELSE IF add_result(ok) = "err" THEN Return(c, "err")
                 ELSE next_candidate(c, i.connection)]

\* The fields of the instance and of its native connection the calls work on.
Instance ==
    [connection |-> connection, pending_candidates |-> pending_candidates,
     localDescription |-> localDescription, remoteDescription |-> remoteDescription,
     remoteCandidates |-> remoteCandidates]

\* The future in slot c was polled: r.call is the call afterwards, r.inst the
\* instance; a call that returned leaves its slot and its outcome in last.
Polled(c, r) ==
    /\ localDescription' = r.inst.localDescription
    /\ remoteDescription' = r.inst.remoteDescription
    /\ remoteCandidates' = r.inst.remoteCandidates
    /\ inflight' = [inflight EXCEPT ![c] = IF r.call.pc = "returned" THEN NoneV ELSE Some(r.call)]
    /\ last' = IF r.call.pc = "returned" THEN r.call.out ELSE last
    /\ UNCHANGED <<connection, pending_candidates, channel, nconn, nativeChannels,
                   slots, raised, discovered, signaler, backendVars, channelVars,
                   exchange>>

\* The caller makes a call and polls its future for the first time.
Called(fut) ==
    /\ steps < MaxSteps
    /\ \E c \in Callers : inflight[c] = NoneV
    /\ Polled(CHOOSE c \in Callers : inflight[c] = NoneV, [inst |-> Instance, call |-> fut])
    /\ steps' = steps + 1
\* The future in slot c awaits promise pc.
Awaits(c, pc) == IsSome(inflight[c]) /\ Unwrap(inflight[c]).pc = pc

\* get_offer() / get_answer() called on the instance.
GetSdp(kind) == Called(get_sdp(NewCall("get_" \o kind, kind), connection))

\* get_offer_str() / get_answer_str() called on the instance.
GetSdpStr(kind) ==
    Called(get_sdp(NewCall("get_" \o kind \o "_str", kind), connection))

\* set_local_description(desc) called on the instance.
SetLocalDescription(s, trap) ==
    Called(set_description(NewCall("set_local_description", ""), connection,
                           "set_local_description", s, trap))

\* set_remote_description(desc) called on the instance.
SetRemoteDescription(s, trap) ==
    Called(set_description(NewCall("set_remote_description", ""), connection,
                           "set_remote_description", s, trap))

\* add_ice_candidate(candidate) called on the instance.
AddIceCandidate(cand) ==
    Called(add_ice_candidate(NewCall("add_ice_candidate", ""), connection, cand))

\* get_handshake_info(key, kind) called on the instance.
GetHandshakeInfo(key, kind) ==
    Called(get_handshake_info([NewCall("get_handshake_info", kind) EXCEPT !.key = key],
                              connection))

\* The envelope a peer running this code signs with key k over payload p, as
\* it arrives after the network had its way with it.
Envelope(p, k, how) ==
    IF how = "garbage" THEN <<>>
    ELSE Encode(Tamper(Unwrap(Decode(SignedEnvelope(p, k))), how))

\* register_remote_info(data) called on the instance with the envelope over p.
RegisterRemoteInfo(p, k, how, trap) ==
    Called(register_remote_info(
              [NewCall("register_remote_info", "") EXCEPT
                  !.out.tamper = how, !.out.signed = Some(p)],
              connection, Envelope(p, k, how), trap))

\* The create_offer / create_answer promise awaited by the future in slot c
\* settles: rejected, or resolved to v.
CreateSettles(c, ok, v, trap) ==
    /\ Awaits(c, "create")
    /\ Polled(c, [inst |-> Instance,
                  call |-> created(Unwrap(inflight[c]), connection, ok, v, trap)])
    /\ steps' = steps

\* The set_local_description promise awaited by the future in slot c settles;
\* fin: whether what the call does after it (signing, reading the sdp text)
\* goes through.
SetLocalSettles(c, ok, fin) ==
    /\ Awaits(c, "set_local_description")
    /\ ~fin => (ok /\ Unwrap(inflight[c]).out.op
                        \in {"get_offer_str", "get_answer_str", "get_handshake_info"})
    /\ Polled(c, local_description_set(Unwrap(inflight[c]), Instance, ok, fin, discovered))
    /\ steps' = steps

\* The set_remote_description promise awaited by the future in slot c settles.
SetRemoteSettles(c, ok) ==
    /\ Awaits(c, "set_remote_description")
    /\ Polled(c, remote_description_set(Unwrap(inflight[c]), Instance, ok))
    /\ steps' = steps

\* The add_ice_candidate promise awaited by the future in slot c settles.
AddSettles(c, ok) ==
    /\ Awaits(c, "add_ice_candidate")
    /\ Polled(c, candidate_added(Unwrap(inflight[c]), Instance, ok))
    /\ steps' = steps

\* What the create promise can do: reject, resolve to a string (the argument
\* built from it may then trap the binding), resolve to an object.
CreateOutcomes ==
    {[ok |-> FALSE, value |-> JsStr("sdpA"), trap |-> FALSE]}
    \cup [ok : {TRUE}, value : {JsStr(s) : s \in Sdps}, trap : BOOLEAN]
    \cup {[ok |-> TRUE, value |-> JsObj("Object", "sdpA"), trap |-> FALSE]}

\* The caller asks for a handshake envelope.
CallGetHandshakeInfo ==
    \E key \in Keys, kind \in SdpTypes :
       \* the key is not looked at for a kind that is refused
       /\ kind \notin {"offer", "answer"} => key = "K1"
       /\ GetHandshakeInfo(key, kind)

\* An envelope arrives from the network and the caller registers it.
CallRegisterRemoteInfo ==
    \E p \in Payloads, k \in Keys, how \in Tampers \cup {"garbage"}, trap \in BOOLEAN :
       \* the binding matters only to an envelope that is applied; the altered
       \* envelopes were signed with K1, and text that is no envelope has no
       \* payload to speak of
       /\ how # "none" => (~trap /\ k = "K1")
       /\ how = "garbage" => p = [sdp |-> "sdpA", candidates |-> <<>>]
       /\ trap => (k = "K1" /\ p.candidates = <<>>)
       /\ RegisterRemoteInfo(p, k, how, trap)

\* ================================================================ two peers
\* Two instances of the transport, A the offerer and B the answerer, each with
\* the fields of WasmTransport::new and the descriptions and candidates its
\* native connection holds, and the call each has in flight.
Peers == {"A", "B"}
NewPeer == [connection |-> 0, pending_candidates |-> <<>>,
            localDescription |-> NoneV, remoteDescription |-> NoneV,
            remoteCandidates |-> <<>>]
ExchangeInit ==
    exchange = [peer |-> [x \in Peers |-> NewPeer],
                call |-> [x \in Peers |-> NoneV],
                env |-> [x \in Peers |-> NoneV],
                log |-> <<>>]

\* What is kept of a step of the exchange: who did what with which result,
\* whether the native layer accepted every call (and the signing went
\* through), and the payload signed.
Step(x, op, status, accepted, payload) ==
    [peer |-> x, op |-> op, status |-> status, accepted |-> accepted,
     payload |-> payload]

\* The exchange of an offer and an answer, step by step.
Scenario == <<[peer |-> "A", op |-> "start"],
              [peer |-> "A", op |-> "get_handshake_info:offer"],
              [peer |-> "B", op |-> "start"],
              [peer |-> "B", op |-> "register_remote_info"],
              [peer |-> "B", op |-> "get_handshake_info:answer"],
              [peer |-> "A", op |-> "register_remote_info"]>>
\* It is x's turn to call op: the steps before it have returned.
Turn(x, op) ==
    /\ Len(exchange.log) < Len(Scenario)
    /\ Scenario[Len(exchange.log) + 1] = [peer |-> x, op |-> op]
    /\ \A y \in Peers : exchange.call[y] = NoneV

\* x.start(stun)
PeerStart(x, nativeOk) ==
    /\ Turn(x, "start")
    /\ exchange' = [exchange EXCEPT
          !.peer[x].connection = IF nativeOk THEN 1 ELSE 0,
          !.log = Append(@, Step(x, "start", "ok", nativeOk, NoneV))]
    /\ UNCHANGED <<transportVars, backendVars, channelVars>>

\* The native layer accepted every call of the call with outcome out, and the
\* payload built was signed.
Accepted(out) ==
    /\ out.status # "panic"
    /\ \A i \in 1..Len(out.native) : out.native[i] = "ok"
    /\ (out.op = "get_handshake_info" /\ IsSome(out.payload)) => IsSome(out.encoded)

\* The future of x's call was polled: r.call is the call afterwards, r.inst
\* the peer; a get_handshake_info that returned Ok puts its envelope on the wire.
PeerPolled(x, r) ==
    LET out == r.call.out
        ok == out.status = "ok"
    IN /\ exchange' =
            IF r.call.pc = "returned"
            THEN [exchange EXCEPT
                    !.peer[x] = r.inst,
                    !.call[x] = NoneV,
                    !.env[x] = IF ok /\ out.op = "get_handshake_info" THEN out.encoded ELSE @,
                    !.log = Append(@, Step(x, Scenario[Len(exchange.log) + 1].op,
                                           out.status, Accepted(out),
                                           IF ok THEN out.payload ELSE NoneV))]
            ELSE [exchange EXCEPT !.peer[x] = r.inst, !.call[x] = Some(r.call)]
       /\ UNCHANGED <<transportVars, backendVars, channelVars>>

\* x.get_handshake_info(key, kind)
PeerGetHandshakeInfo(x, key, kind) ==
    /\ Turn(x, "get_handshake_info:" \o kind)
    /\ PeerPolled(x, [inst |-> exchange.peer[x],
                      call |-> get_handshake_info(
                                  [NewCall("get_handshake_info", kind) EXCEPT !.key = key],
                                  exchange.peer[x].connection)])

\* The peer of x on the wire.
Other(x) == IF x = "A" THEN "B" ELSE "A"

\* x.register_remote_info(the envelope the other peer put on the wire)
PeerRegisterRemoteInfo(x, trap) ==
    /\ Turn(x, "register_remote_info")
    /\ IsSome(exchange.env[Other(x)])
    /\ PeerPolled(x, [inst |-> exchange.peer[x],
                      call |-> register_remote_info(
                                  NewCall("register_remote_info", ""),
                                  exchange.peer[x].connection,
                                  Unwrap(exchange.env[Other(x)]), trap)])

\* How the promise a call awaits settles and what follows in the same poll:
\* resolved or rejected, the value a create promise resolves to, whether the
\* binding traps on the next native argument, whether the signing (or the
\* reading of the sdp text) goes through.
Settlements ==
    [ok : BOOLEAN, value : NativeDescs, trap : BOOLEAN, fin : BOOLEAN]

\* The call goes on after the promise it awaits settled as n.
settled(fut, inst, n, disc) ==
    CASE fut.pc = "create" ->
            [inst |-> inst, call |-> created(fut, inst.connection, n.ok, n.value, n.trap)]
      [] fut.pc = "set_local_description" ->
            local_description_set(fut, inst, n.ok, n.fin, disc)
      [] fut.pc = "set_remote_description" ->
            remote_description_set(fut, inst, n.ok)
      [] fut.pc = "add_ice_candidate" ->
            candidate_added(fut, inst, n.ok)

\* The promise x's call awaits settles. (A peer's candidate handler keeps
\* nothing, so disc is of no account here.)
PeerSettles(x, n) ==
    /\ IsSome(exchange.call[x])
    /\ PeerPolled(x, settled(Unwrap(exchange.call[x]), exchange.peer[x], n, <<>>))

\* ================================================================ backend
\* Text the dispatcher inspects is a sequence of one-character strings.
LowerAlphabet == <<"a","b","c","d","e","f","g","h","i","j","k","l","m",
                   "n","o","p","q","r","s","t","u","v","w","x","y","z">>
UpperAlphabet == <<"A","B","C","D","E","F","G","H","I","J","K","L","M",
                   "N","O","P","Q","R","S","T","U","V","W","X","Y","Z">>
\* Characters outside ASCII are written by name: "dotless-i" is U+0131,
\* "long-s" is U+017F, "sharp-s" is U+00DF.
\* char::to_uppercase, by the Unicode tables: the upper-case text of one
\* character, which for some characters outside ASCII is ASCII text.
UpperChar(c) ==
    IF \E i \in 1..Len(LowerAlphabet) : LowerAlphabet[i] = c
    THEN <<UpperAlphabet[CHOOSE i \in 1..Len(LowerAlphabet) : LowerAlphabet[i] = c]>>
    ELSE CASE c = "dotless-i" -> <<"I">>
           [] c = "long-s" -> <<"S">>
           [] c = "sharp-s" -> <<"S", "S">>
           [] OTHER -> <<c>>
\* str::to_uppercase
RECURSIVE to_uppercase(_)
to_uppercase(t) ==
    IF t = <<>> THEN <<>> ELSE UpperChar(Head(t)) \o to_uppercase(Tail(t))

\* try_into_method: the method names accepted after upper-casing.
Methods ==
    {<<"G","E","T">>, <<"P","O","S","T">>, <<"P","U","T">>,
     <<"D","E","L","E","T","E">>, <<"H","E","A","D">>,
     <<"O","P","T","I","O","N","S">>, <<"T","R","A","C","E">>,
     <<"C","O","N","N","E","C","T">>, <<"P","A","T","C","H">>}
try_into_method(t) ==
    IF to_uppercase(t) \in Methods THEN Some(to_uppercase(t)) ELSE NoneV

\* str::trim_start_matches('/')
RECURSIVE trim_start_slashes(_)
trim_start_slashes(t) ==
    IF t # <<>> /\ Head(t) = "/" THEN trim_start_slashes(Tail(t)) ELSE t

\* format!("http://localhost:{}/{}", port, path.trim_start_matches('/'))
Url(port, path) == [host |-> "localhost", port |-> port, path |-> trim_start_slashes(path)]

\* The lower-case form a header name is parsed into: A..Z become a..z, every
\* other character stays (u8::to_ascii_lowercase).
LowerChar(c) ==
    IF \E i \in 1..Len(UpperAlphabet) : UpperAlphabet[i] = c
    THEN LowerAlphabet[CHOOSE i \in 1..Len(UpperAlphabet) : UpperAlphabet[i] = c]
    ELSE c

\* name.parse::<HeaderName>(): a name is a non-empty text of token characters
\* (of which the model draws letters and "-"); the parsed name is in lower case.
\* value.parse::<HeaderValue>(): a value has no control character (the model
\* draws "line-break" for one).
HeaderNameOk(n) ==
    /\ n # <<>>
    /\ \A i \in 1..Len(n) :
          \/ n[i] = "-"
          \/ \E j \in 1..Len(LowerAlphabet) : LowerAlphabet[j] = n[i] \/ UpperAlphabet[j] = n[i]
HeaderName(n) == [i \in 1..Len(n) |-> LowerChar(n[i])]
HeaderValueOk(v) == \A i \in 1..Len(v) : v[i] # "line-break"

\* HeaderMap::insert(name, value): the value replaces the one the map holds for
\* the name, if any; a new name goes to the end.
insert(map, name, value) ==
    IF \E i \in 1..Len(map) : map[i].name = name
    THEN [i \in 1..Len(map) |->
            IF map[i].name = name THEN [name |-> name, value |-> value] ELSE map[i]]
    ELSE Append(map, [name |-> name, value |-> value])
\* The HeaderMap execute's loop builds from the request's headers.
RECURSIVE HeaderMap(_, _)
HeaderMap(map, hs) ==
    IF hs = <<>> THEN map
    ELSE HeaderMap(insert(map, HeaderName(Head(hs).name), Head(hs).value), Tail(hs))

Response(status, headers, body) == [status |-> status, headers |-> headers, body |-> body]

\* unwrap_or_else(|e| HttpServerResponse { status: 500, headers: vec![], body: e.to_string() })
ErrorResponse(cause) == Response(500, <<>>, cause)

\* The first header that does not parse, as execute's loop meets it; 0 if none.
FirstBadHeader(hs) ==
    IF \E i \in 1..Len(hs) : ~HeaderNameOk(hs[i].name) \/ ~HeaderValueOk(hs[i].value)
    THEN CHOOSE i \in 1..Len(hs) :
            /\ ~HeaderNameOk(hs[i].name) \/ ~HeaderValueOk(hs[i].value)
            /\ \A j \in 1..(i - 1) : HeaderNameOk(hs[j].name) /\ HeaderValueOk(hs[j].value)
    ELSE 0

\* HttpServer::execute up to req.send(): the error it returns, or the request
\* it issues to the local service.
execute_prepare(port, req) ==
    LET bad == FirstBadHeader(req.headers)
    IN IF ~IsSome(try_into_method(req.method))
       THEN [err |-> Some("Invalid HTTP method"), request |-> NoneV]
       ELSE IF bad # 0
            THEN [err |-> Some(IF ~HeaderNameOk(req.headers[bad].name)
                               THEN "Invalid header name" ELSE "Invalid header value"),
                  request |-> NoneV]
       ELSE [err |-> NoneV,
             request |-> Some([method |-> Unwrap(try_into_method(req.method)),
                               url |-> Url(port, req.path),
                               headers |-> HeaderMap(<<>>, req.headers),
                               body |-> req.body])]

\* MessageRelay::relay(destination, None) on a clone of ctx.relay: the path is
\* extended by this node for the return hop; a relay the relay rules refuse
\* gives None.
AdjustRelay(r) ==
    IF r.valid
    THEN Some([r EXCEPT !.path = Append(@, r.destination), !.next_hop = "none"])
    ELSE NoneV

\* if let Some(ref server) = self.http_server
configuredAlways(server) == TRUE
configured(server) == IsSome(server)

\* custom_message from its entry to its first suspension: the task's state.
custom_message_start(server, c, m) ==
    LET base == [ctx |-> c, msg |-> m, pc |-> "done", relay |-> AdjustRelay(c.relay),
                 resp |-> NoneV, request |-> NoneV, held |-> NoneV, log |-> "none",
                 failed |-> FALSE, served |-> NoneV, out |-> NoneV]
        prep == execute_prepare(IF IsSome(server) THEN Unwrap(server).port ELSE 0,
                                Unwrap(m.req))
    IN IF ~IsSome(AdjustRelay(c.relay)) THEN [base EXCEPT !.pc = "panicked"]
       ELSE IF m.kind = "undecryptable" \/ m.kind = "unparseable" THEN base
       ELSE IF m.kind = "response" THEN [base EXCEPT !.log = "println"]
       ELSE IF ~configured(server) THEN [base EXCEPT !.log = "warn"]
       ELSE IF IsSome(prep.err)
            THEN [base EXCEPT !.pc = "reply", !.log = "info", !.failed = TRUE,
                              !.resp = Some(ErrorResponse(Unwrap(prep.err)))]
       ELSE [base EXCEPT !.pc = "await_send", !.log = "info", !.request = prep.request]

\* ---- inputs
\* Relay contexts: two the relay rules accept, one they refuse.
RelayShort == [path |-> <<"n1">>, destination |-> "me", next_hop |-> "me", valid |-> TRUE]
RelayLong == [path |-> <<"n1", "n2">>, destination |-> "me", next_hop |-> "me", valid |-> TRUE]
RelayRefused == [path |-> <<"n1">>, destination |-> "vnode", next_hop |-> "me", valid |-> FALSE]
CtxA == [tx_id |-> "tx1", relay |-> RelayShort, pubkey |-> Some("pkA")]
CtxB == [tx_id |-> "tx2", relay |-> RelayLong, pubkey |-> Some("pkB")]
CtxRefused == [tx_id |-> "tx3", relay |-> RelayRefused, pubkey |-> Some("pkA")]
CtxNoKey == [tx_id |-> "tx4", relay |-> RelayShort, pubkey |-> NoneV]

ReqStatus == [method |-> <<"g","e","t">>, path |-> <<"/","s">>, headers |-> <<>>, body |-> NoneV]
ReqBadMethod == [method |-> <<"B","R","E","W">>, path |-> <<"s">>, headers |-> <<>>, body |-> NoneV]
ReqBadName ==
    [method |-> <<"G","E","T">>, path |-> <<"/","/","s">>,
     headers |-> <<[name |-> <<"b","a","d"," ","n","a","m","e">>, value |-> <<"x">>]>>,
     body |-> NoneV]
ReqBadValue ==
    [method |-> <<"P","o","s","t">>, path |-> <<"/","s">>,
     headers |-> <<[name |-> <<"a","c","c","e","p","t">>, value |-> <<"x">>],
                   [name |-> <<"a","c","c","e","p","t">>, value |-> <<"line-break">>]>>,
     body |-> Some("b")]
Requests == {ReqStatus, ReqBadMethod, ReqBadName, ReqBadValue}
Msg(kind) == [kind |-> kind, req |-> NoneV]
Request(r) == [kind |-> "request", req |-> Some(r)]
Inbound ==
    {Msg(k) : k \in {"undecryptable", "unparseable", "response"}}
    \cup {Request(r) : r \in Requests}
\* A method spelled with U+0131 where OPTIONS has its I, and one header name
\* given twice, in two spellings.
ReqDotlessI ==
    [method |-> <<"o","p","t","dotless-i","o","n","s">>, path |-> <<"s">>,
     headers |-> <<[name |-> <<"A","c","c","e","p","t">>, value |-> <<"x">>],
                   [name |-> <<"a","c","c","e","p","t">>, value |-> <<"y">>]>>,
     body |-> NoneV]
\* The deliveries the model draws: every kind of message under the first
\* context, and the other contexts with the messages that tell them apart.
Deliveries ==
    {[ctx |-> CtxA, msg |-> m] : m \in Inbound}
    \cup {[ctx |-> CtxB, msg |-> m] : m \in {Request(ReqDotlessI), Msg("response")}}
    \cup {[ctx |-> CtxRefused, msg |-> m] :
             m \in {Msg("undecryptable"), Msg("unparseable"), Request(ReqStatus)}}
    \cup {[ctx |-> CtxNoKey, msg |-> m] : m \in {Request(ReqStatus)}}
\* Status lines the local service can answer with.
Statuses == {200, 101}

BackendInit ==
    /\ http_server \in {NoneV, Some([port |-> 8080])}
    /\ nmsg = 0
    /\ task = <<>>
    /\ outbox = <<>>
    /\ localRequests = <<>>

\* The context a reply is addressed from: the one of the call itself.
ReplyContextLatest(tasks, t) == tasks[Len(tasks)].ctx
ReplyContext(tasks, t) == tasks[t].ctx

\* custom_message from the return of execute to send_report_message(..).await,
\* for call t of tasks, whose response is in resp: the response is serialized,
\* the origin's public key taken (origin_session_pubkey().unwrap()), the
\* message built for it (Message::custom(..).unwrap(); built: whether
\* Message::custom returned Ok) and handed to send_report_message with the
\* request's transaction id and the adjusted relay.
execute_returned(tasks, t, built) ==
    LET c == ReplyContext(tasks, t)
    IN IF tasks[t].pc # "reply" THEN tasks
       ELSE IF ~IsSome(c.pubkey) THEN [tasks EXCEPT ![t].pc = "panicked"]
       ELSE IF ~built THEN [tasks EXCEPT ![t].pc = "panicked"]
       ELSE [tasks EXCEPT ![t].out = Some([for |-> t, tx_id |-> c.tx_id,
                                           relay |-> Unwrap(tasks[t].relay),
                                           to |-> Unwrap(c.pubkey),
                                           payload |-> Unwrap(tasks[t].resp)])]

\* An inbound custom message arrives and custom_message runs to its first await.
Receive(c, m, built) ==
    /\ nmsg < MaxMsgs
    /\ nmsg' = nmsg + 1
    /\ LET t == custom_message_start(http_server, c, m)
       IN /\ task' = execute_returned(Append(task, t), Len(task) + 1, built)
          /\ localRequests' = IF t.pc = "await_send"
                              THEN Append(localRequests, Unwrap(t.request))
                              ELSE localRequests
    /\ UNCHANGED <<http_server, outbox, transportVars, channelVars, exchange>>

\* req.send().await fails (unreachable service): execute returns Err.
ServiceFails(t, built) ==
    /\ t \in 1..Len(task)
    /\ task[t].pc = "await_send"
    /\ task' = execute_returned(
                   [task EXCEPT ![t].pc = "reply", ![t].failed = TRUE,
                                ![t].resp = Some(ErrorResponse("send error"))], t, built)
    /\ UNCHANGED <<http_server, nmsg, outbox, localRequests, transportVars, channelVars, exchange>>

\* req.send().await gives a response: its status is kept and its headers are
\* turned into text (value.to_str().unwrap()), which panics on a header value
\* that is not visible ASCII.
ServiceAnswers(t, status, headerText) ==
    /\ t \in 1..Len(task)
    /\ task[t].pc = "await_send"
    /\ IF headerText
       THEN task' = [task EXCEPT ![t].pc = "await_body",
                                 ![t].held = Some([status |-> status,
                                                   headers |-> <<[name |-> "server", value |-> "x"]>>])]
       ELSE task' = [task EXCEPT ![t].pc = "panicked"]
    /\ UNCHANGED <<http_server, nmsg, outbox, localRequests, transportVars, channelVars, exchange>>

\* resp.bytes().await: the body, or an error that execute returns.
BodyRead(t, ok, built) ==
    /\ t \in 1..Len(task)
    /\ task[t].pc = "await_body"
    /\ LET h == Unwrap(task[t].held)
       IN task' = execute_returned(
                    [task EXCEPT
                       ![t].pc = "reply",
                       ![t].held = NoneV,
                       ![t].failed = ~ok,
                       ![t].served = IF ok THEN Some([status |-> h.status, body |-> "ok"])
                                     ELSE NoneV,
                       ![t].resp = IF ok THEN Some(Response(h.status, h.headers, "ok"))
                                   ELSE Some(ErrorResponse("body error"))], t, built)
    /\ UNCHANGED <<http_server, nmsg, outbox, localRequests, transportVars, channelVars, exchange>>

\* The request's timeout (15 s from its start to the end of the body) elapses
\* while the service has not answered or has not finished the body: the await
\* in progress returns the timeout error and execute returns Err.
RequestTimesOut(t, built) ==
    /\ t \in 1..Len(task)
    /\ task[t].pc \in {"await_send", "await_body"}
    /\ task' = execute_returned(
                   [task EXCEPT ![t].pc = "reply", ![t].held = NoneV, ![t].failed = TRUE,
                                ![t].resp = Some(ErrorResponse("timed out"))], t, built)
    /\ UNCHANGED <<http_server, nmsg, outbox, localRequests, transportVars, channelVars, exchange>>

\* Where the call stands once send_report_message(..).await.unwrap() is through.
after_send_again(sent) == IF sent THEN "reply" ELSE "panicked"
after_send(sent) == IF sent THEN "done" ELSE "panicked"

\* send_report_message(..).await.unwrap() of call t is through: the message
\* went out, or the send failed and the unwrap panics.
Reply(t, sent) ==
    /\ t \in 1..Len(task)
    /\ task[t].pc = "reply"
    /\ task' = [task EXCEPT ![t].pc = after_send(sent)]
    /\ outbox' = IF sent THEN Append(outbox, Unwrap(task[t].out)) ELSE outbox
    /\ UNCHANGED <<http_server, nmsg, localRequests, transportVars, channelVars, exchange>>


\* ================================================================ event channel
\* Event (types/channel.rs:4-8)
Events == {[tag |-> "ConnectFailed", data |-> ""],
           [tag |-> "ReceiveMsg", data |-> "a"],
           [tag |-> "ReceiveMsg", data |-> "b"]}
\* Handles over the one queue that calls are made on: the channel's own pair
\* and a clone of each handed out by sender() and receiver(). (A recv on the
\* channel itself goes through a third receiver handle, "temp".)
Senders == {"own", "clone"}
Receivers == {"own", "clone"}

\* AcChannel::new(buffer): ac::bounded(buffer) panics for a capacity of zero
\* and no channel comes to be; for any other capacity it makes an empty, open
\* queue of that capacity, with the channel's own sender and receiver.
new(buffer) ==
    /\ bounded = [buffer |-> buffer, closed |-> FALSE,
                  result |-> IF buffer = 0 THEN "panic" ELSE "ok"]
    /\ queue = <<>>
    /\ sending = [p \in Senders |-> NoneV]
    /\ receiving = {}
    /\ nsends = 0
    /\ sentLog = <<>>
    /\ recvLog = <<>>
    /\ alive = IF buffer = 0 THEN [snd |-> {}, rcv |-> {}]
                              ELSE [snd |-> {"own"}, rcv |-> {"own"}]
    /\ failures = {}
\* The channel after construction, for every capacity up to the largest.
ChannelInit == \E buffer \in 0..Capacity : new(buffer)

\* AcChannel::sender(): one more sender handle on the queue.
SenderCall ==
    /\ "own" \in alive.snd
    /\ "clone" \notin alive.snd
    /\ alive' = [alive EXCEPT !.snd = @ \cup {"clone"}]
    /\ UNCHANGED <<queue, sending, receiving, nsends, sentLog, recvLog, failures,
                   bounded,
                   transportVars, backendVars, exchange>>

\* AcChannel::receiver(): one more receiver handle on the queue.
ReceiverCall ==
    /\ "own" \in alive.rcv
    /\ "clone" \notin alive.rcv
    /\ alive' = [alive EXCEPT !.rcv = @ \cup {"clone"}]
    /\ UNCHANGED <<queue, sending, receiving, nsends, sentLog, recvLog, failures,
                   bounded,
                   transportVars, backendVars, exchange>>

\* send(e) is called on a sender handle: the call is pending until there is room.
SendCall(p, e) ==
    /\ nsends < MaxSends
    /\ p \in alive.snd
    /\ sending[p] = NoneV
    /\ sending' = [sending EXCEPT ![p] = Some(e)]
    /\ nsends' = nsends + 1
    /\ UNCHANGED <<queue, receiving, sentLog, recvLog, alive, failures,
                   bounded,
                   transportVars, backendVars, exchange>>

\* The queue is closed once close() was called on one of its handles (flag), or
\* the last sender handle or the last receiver handle was dropped. A closed
\* queue refuses every send; a recv still takes what is queued and fails once
\* the queue is drained.
closed(a, flag) == flag \/ a.snd = {} \/ a.rcv = {}

\* A pending send completes once the open queue holds fewer events than the
\* capacity given to ac::bounded.
SendComplete(p) ==
    /\ sending[p] # NoneV
    /\ ~closed(alive, bounded.closed)
    /\ Len(queue) < bounded.buffer
    /\ queue' = Append(queue, Unwrap(sending[p]))
    /\ sentLog' = Append(sentLog, Unwrap(sending[p]))
    /\ sending' = [sending EXCEPT ![p] = NoneV]
    /\ UNCHANGED <<receiving, nsends, recvLog, alive, failures, bounded,
                   transportVars, backendVars, exchange>>

\* A pending send returns Err: the queue is closed, the event is handed back.
SendFails(p) ==
    /\ sending[p] # NoneV
    /\ closed(alive, bounded.closed)
    /\ sending' = [sending EXCEPT ![p] = NoneV]
    /\ failures' = failures \cup {[op |-> "send", n |-> nsends - Len(sentLog), by |-> p,
                                    senders |-> alive.snd # {}, receivers |-> alive.rcv # {},
                                    queued |-> Len(queue), closed |-> bounded.closed]}
    /\ UNCHANGED <<queue, receiving, nsends, sentLog, recvLog, alive,
                   bounded,
                   transportVars, backendVars, exchange>>

\* The receiver handles once a recv by r has begun, and once it has returned:
\* AcChannel::recv is self.receiver().recv().await, on a handle of its own
\* that lives as long as the call.
recv_begin(rcv, r) == IF r = "own" THEN rcv \cup {"temp"} ELSE rcv
recv_end(rcv, r) == IF r = "own" THEN rcv \ {"temp"} ELSE rcv

\* recv() is called on a receiver handle: the call is pending until an event is there.
RecvCall(r) ==
    /\ r \in alive.rcv
    /\ r \notin receiving
    /\ receiving' = receiving \cup {r}
    /\ alive' = [alive EXCEPT !.rcv = recv_begin(@, r)]
    /\ UNCHANGED <<queue, sending, nsends, sentLog, recvLog, failures,
                   bounded,
                   transportVars, backendVars, exchange>>

\* What a completing recv takes and what it leaves: a recv that takes the newest
\* event, and the channel's, which takes the oldest.
dequeue_newest(q) == [ev |-> q[Len(q)], rest |-> SubSeq(q, 1, Len(q) - 1)]
dequeue(q) == [ev |-> Head(q), rest |-> Tail(q)]

\* A pending recv completes with an event, which leaves the queue.
RecvComplete(r) ==
    /\ r \in receiving
    /\ queue # <<>>
    /\ queue' = dequeue(queue).rest
    /\ recvLog' = Append(recvLog, [by |-> r, ev |-> dequeue(queue).ev])
    /\ receiving' = receiving \ {r}
    /\ alive' = [alive EXCEPT !.rcv = recv_end(@, r)]
    /\ UNCHANGED <<sending, nsends, sentLog, failures, bounded,
                   transportVars, backendVars, exchange>>

\* A pending recv returns Err: the queue is closed and drained.
RecvFails(r) ==
    /\ r \in receiving
    /\ queue = <<>>
    /\ closed(alive, bounded.closed)
    /\ receiving' = receiving \ {r}
    /\ failures' = failures \cup {[op |-> "recv", n |-> 0, by |-> r,
                                    senders |-> alive.snd # {}, receivers |-> alive.rcv # {},
                                    queued |-> Len(queue), closed |-> bounded.closed]}
    /\ alive' = [alive EXCEPT !.rcv = recv_end(@, r)]
    /\ UNCHANGED <<queue, sending, nsends, sentLog, recvLog,
                   bounded,
                   transportVars, backendVars, exchange>>

\* The AcChannel value is dropped: its sender and its receiver go together.
\* A handle borrowed by a pending call cannot be dropped.
DropChannel ==
    /\ "own" \in alive.snd
    /\ sending["own"] = NoneV
    /\ "own" \notin receiving
    /\ alive' = [snd |-> alive.snd \ {"own"}, rcv |-> alive.rcv \ {"own"}]
    /\ UNCHANGED <<queue, sending, receiving, nsends, sentLog, recvLog, failures,
                   bounded,
                   transportVars, backendVars, exchange>>

\* A handle obtained from sender() is dropped.
DropSender(p) ==
    /\ p # "own"
    /\ p \in alive.snd
    /\ sending[p] = NoneV
    /\ alive' = [alive EXCEPT !.snd = @ \ {p}]
    /\ UNCHANGED <<queue, sending, receiving, nsends, sentLog, recvLog, failures,
                   bounded,
                   transportVars, backendVars, exchange>>

\* A handle obtained from receiver() is dropped.
DropReceiver(r) ==
    /\ r # "own"
    /\ r \in alive.rcv
    /\ r \notin receiving
    /\ alive' = [alive EXCEPT !.rcv = @ \ {r}]
    /\ UNCHANGED <<queue, sending, nsends, receiving, sentLog, recvLog, failures,
                   bounded,
                   transportVars, backendVars, exchange>>

\* close() is called on a handle obtained from sender() (side "snd") or from
\* receiver() (side "rcv"): the queue is closed for every handle, whichever
\* handles are still alive; what is queued stays.
Close(side) ==
    /\ "clone" \in alive[side]
    /\ ~bounded.closed
    /\ bounded' = [bounded EXCEPT !.closed = TRUE]
    /\ UNCHANGED <<queue, sending, receiving, nsends, sentLog, recvLog, alive, failures,
                   transportVars, backendVars, exchange>>

\* ================================================================ specifications
BackendIdle ==
    /\ http_server = NoneV
    /\ nmsg = 0
    /\ task = <<>>
    /\ outbox = <<>>
    /\ localRequests = <<>>


\* The life of one negotiation instance: start, channel setup, candidate
\* discovery, outbound handshake steps and the settling of their promises.
Init == TransportInit /\ BackendIdle /\ new(Capacity) /\ ExchangeInit
Next ==
    \/ \E ok \in BOOLEAN : Start(ok)
    \/ \E name \in ChannelNames : SetupChannel(name)
    \* on_ice_candidate(self.on_ice_candidate_callback())
    \/ Register("icecandidate", "h1")
    \/ \E c \in Cands : NativeEvent("icecandidate", c, TRUE)
    \/ CallGetHandshakeInfo
    \/ \E c \in Callers, n \in CreateOutcomes : CreateSettles(c, n.ok, n.value, n.trap)
    \/ \E c \in Callers, ok \in BOOLEAN, fin \in BOOLEAN : SetLocalSettles(c, ok, fin)
Spec == Init /\ [][Next]_vars

\* The signed handshake as one instance sees it: its own outbound envelopes and
\* the envelopes, honest or altered, that reach it.
HandshakeNext ==
    \/ steps < MaxExchange /\ \E ok \in BOOLEAN : Start(ok)
    \/ steps < MaxExchange /\ CallGetHandshakeInfo
    \/ steps < MaxExchange /\ CallRegisterRemoteInfo
    \/ \E c \in Callers, n \in CreateOutcomes : CreateSettles(c, n.ok, n.value, n.trap)
    \/ \E c \in Callers, ok \in BOOLEAN, fin \in BOOLEAN : SetLocalSettles(c, ok, fin)
    \/ \E c \in Callers, ok \in BOOLEAN : SetRemoteSettles(c, ok)
    \/ \E c \in Callers, ok \in BOOLEAN : AddSettles(c, ok)
HandshakeSpec == Init /\ [][HandshakeNext]_vars

\* The transport's operations as IceTransport exposes them: start, the
\* negotiation calls (suspended at their awaits while other calls,
\* registrations and native events run), the registrations, the native events.
TransportNext ==
    \/ \E ok \in BOOLEAN : Start(ok)
    \/ SetupChannel("aux")
    \/ \E kind \in {"offer", "answer"} : GetSdp(kind)
    \/ GetSdpStr("offer")
    \/ \E trap \in BOOLEAN : SetLocalDescription("sdpB", trap)
    \/ \E trap \in BOOLEAN : SetRemoteDescription("sdpA", trap)
    \/ AddIceCandidate("c1")
    \/ \E c \in Callers, n \in CreateOutcomes : CreateSettles(c, n.ok, n.value, n.trap)
    \/ \E c \in Callers, ok \in BOOLEAN, fin \in BOOLEAN : SetLocalSettles(c, ok, fin)
    \/ \E c \in Callers, ok \in BOOLEAN : SetRemoteSettles(c, ok)
    \/ \E c \in Callers, ok \in BOOLEAN : AddSettles(c, ok)
    \/ \E k \in EventKinds, h \in Handlers : Register(k, h)
    \/ \E c \in Cands : NativeEvent("icecandidate", c, TRUE)
    \/ \E k \in EventKinds \ {"icecandidate", "message"} : NativeEvent(k, "c1", TRUE)
    \/ \E m \in Messages, accepted \in BOOLEAN : NativeEvent("message", m, accepted)
TransportSpec == Init /\ [][TransportNext]_vars

\* Two peers exchanging an offer and an answer through signed envelopes.
ExchangeNext ==
    \/ \E x \in Peers, ok \in BOOLEAN : PeerStart(x, ok)
    \/ \E x \in Peers, key \in Keys, kind \in {"offer", "answer"} :
          PeerGetHandshakeInfo(x, key, kind)
    \/ \E x \in Peers, trap \in BOOLEAN : PeerRegisterRemoteInfo(x, trap)
    \/ \E x \in Peers, n \in Settlements : PeerSettles(x, n)
ExchangeSpec == Init /\ [][ExchangeNext]_vars

\* The dispatcher: inbound custom messages handled concurrently, each call
\* suspended at its awaits while the others run.
BackendStart == BackendInit /\ TransportInit /\ new(Capacity) /\ ExchangeInit
BackendNext ==
    \/ \E d \in Deliveries, built \in BOOLEAN : Receive(d.ctx, d.msg, built)
    \/ \E t \in 1..MaxMsgs, built \in BOOLEAN : ServiceFails(t, built)
    \/ \E t \in 1..MaxMsgs, status \in Statuses, headerText \in BOOLEAN :
          ServiceAnswers(t, status, headerText)
    \/ \E t \in 1..MaxMsgs, ok \in BOOLEAN, built \in BOOLEAN : BodyRead(t, ok, built)
    \/ \E t \in 1..MaxMsgs, built \in BOOLEAN : RequestTimesOut(t, built)
    \/ \E t \in 1..MaxMsgs, sent \in BOOLEAN : Reply(t, sent)
BackendSpec == BackendStart /\ [][BackendNext]_vars

\* One step of call t past its current await: the local service answers or
\* fails, the body is read, the timeout elapses, the reply is handed over.
Progress(t) ==
    \/ \E built \in BOOLEAN : ServiceFails(t, built)
    \/ \E status \in Statuses, headerText \in BOOLEAN : ServiceAnswers(t, status, headerText)
    \/ \E ok \in BOOLEAN, built \in BOOLEAN : BodyRead(t, ok, built)
    \/ \E built \in BOOLEAN : RequestTimesOut(t, built)
    \/ \E sent \in BOOLEAN : Reply(t, sent)
\* The same system with the scheduling the runtime gives: a call suspended at
\* an await is resumed, since the request's timer fires at the latest after
\* the timeout and a ready future is polled.
BackendFairSpec ==
    BackendStart /\ [][BackendNext]_vars /\ \A t \in 1..MaxMsgs : WF_vars(Progress(t))

\* The event channel: producers and consumers on cloned handles, in any order.
ChannelStart == ChannelInit /\ TransportInit /\ BackendIdle /\ ExchangeInit
ChannelNext ==
    \/ SenderCall
    \/ ReceiverCall
    \/ \E p \in Senders, e \in Events : SendCall(p, e)
    \/ \E p \in Senders : SendComplete(p)
    \/ \E r \in Receivers : RecvCall(r)
    \/ \E r \in Receivers : RecvComplete(r)
ChannelSpec == ChannelStart /\ [][ChannelNext]_vars

\* The event channel through the life of its handles: clones are dropped or
\* closed, the channel value itself is dropped, calls on the remaining handles
\* go on.
ChannelLifeNext ==
    \/ SenderCall
    \/ ReceiverCall
    \/ \E p \in Senders, e \in Events : SendCall(p, e)
    \/ \E p \in Senders : SendComplete(p)
    \/ \E p \in Senders : SendFails(p)
    \/ \E r \in Receivers : RecvCall(r)
    \/ \E r \in Receivers : RecvComplete(r)
    \/ \E r \in Receivers : RecvFails(r)
    \/ DropChannel
    \/ \E p \in Senders : DropSender(p)
    \/ \E r \in Receivers : DropReceiver(r)
    \/ \E side \in {"snd", "rcv"} : Close(side)
ChannelLifeSpec == ChannelStart /\ [][ChannelLifeNext]_vars

\* ================================================================ claims
\* An operation on the instance returns in this step, with outcome last': a
\* call made and finished in its first poll, a registration, a native event,
\* or a call in flight leaving its slot.
Returns ==
    \/ steps' # steps /\ inflight' = inflight
    \/ \E c \in Callers : IsSome(inflight[c]) /\ inflight'[c] = NoneV
\* The outcomes built by the calls in flight.
Building == {Unwrap(inflight[c]).out : c \in {d \in Callers : IsSome(inflight[d])}}

\* The data channels that exist on the instance's current connection.
ChannelsOnConnection == {ch \in nativeChannels : ch.conn = connection}

\* C1: register_remote_info never applies an unverified payload: native
\* set_remote_description / add_ice_candidate calls are made only for an envelope
\* whose verify() returned true, and when verification returns false or errors
\* the call returns an error and leaves the remote description and the applied
\* candidates exactly as they were.
C1_NeverAppliesUnverified ==
    /\ [](\A o \in Building \cup {last} :
            (o.op = "register_remote_info" /\ o.calls # <<>>) => o.verify = "true")
    /\ [][(Returns /\ last'.op = "register_remote_info" /\ last'.verify # "true")
           => /\ last'.status = "err"
              /\ last'.calls = <<>>
              /\ remoteDescription' = remoteDescription
              /\ remoteCandidates' = remoteCandidates]_vars

\* An envelope altered after signing is refused while a remote description and
\* candidates from an earlier, verified envelope are installed.
C1_Witness ==
    /\ last.op = "register_remote_info"
    /\ last.tamper = "payload"
    /\ last.verify = "false"
    /\ last.status = "err"
    /\ IsSome(remoteDescription)
    /\ remoteCandidates # <<>>

\* C8: candidate order preservation: the candidates discovered on the instance,
\* in discovery order, are the candidates of the next get_handshake_info payload.
C8_OrderPreserved ==
    (last.op = "get_handshake_info" /\ last.status = "ok") =>
        Unwrap(last.payload).candidates = last.discovered

\* C9: at most one data channel: whatever start and setup_channel calls were
\* made, exactly one data channel exists on the instance's connection, the one
\* the instance holds.
C9_OneDataChannel ==
    connection # 0 =>
        /\ Cardinality(ChannelsOnConnection) = 1
        /\ \A ch \in ChannelsOnConnection : ch.id = channel

\* The replies sent for the call handling inbound message t.
RepliesFor(t) == {i \in 1..Len(outbox) : outbox[i].for = t}
Finished(t) == task[t].pc \in {"done", "panicked"}

\* C3: the dispatcher always answers valid requests: with a local HTTP service
\* configured, every decrypted, well-formed HttpServer::Request gets exactly one
\* response, with a status in 200..599, and status 500 when the local service
\* is unreachable or execution otherwise fails.
C3_AlwaysAnswers ==
    \A t \in 1..Len(task) :
        (IsSome(http_server) /\ task[t].msg.kind = "request" /\ Finished(t)) =>
            /\ Cardinality(RepliesFor(t)) = 1
            /\ \A i \in RepliesFor(t) :
                  /\ outbox[i].payload.status \in 200..599
                  /\ task[t].failed => outbox[i].payload.status = 500

\* C4: the dispatcher never answers invalid input: a payload that fails
\* decryption or does not parse is dropped silently, handling completes
\* normally and nothing is sent, whatever the relay context is.
C4_DropsInvalidInput ==
    \A t \in 1..Len(task) :
        task[t].msg.kind \in {"undecryptable", "unparseable"} =>
            /\ task[t].pc = "done"
            /\ RepliesFor(t) = {}

\* C5: with no local HTTP service configured, a well-formed request produces no
\* outbound message and no request to any local service; a call that gets as
\* far as the dispatch only logs the warning and returns.
C5_NoServiceNoAction ==
    ~IsSome(http_server) =>
        /\ outbox = <<>>
        /\ localRequests = <<>>
        /\ \A t \in 1..Len(task) :
              /\ Finished(t)
              /\ (task[t].msg.kind = "request" /\ task[t].pc = "done") => task[t].log = "warn"

\* A well-formed request was handled to completion without a configured service.
C5_Witness ==
    /\ ~IsSome(http_server)
    /\ \E t \in 1..Len(task) :
          /\ task[t].msg.kind = "request"
          /\ task[t].pc = "done"
          /\ task[t].log = "warn"

\* C6: at-most-once reply: each inbound request yields at most one outbound
\* response, outbound messages never outnumber inbound requests, and an inbound
\* HttpServer::Response triggers no outbound message and no local request.
C6_AtMostOnce ==
    /\ \A t \in 1..Len(task) :
          /\ Cardinality(RepliesFor(t)) <= 1
          /\ task[t].msg.kind # "request" => (RepliesFor(t) = {} /\ task[t].request = NoneV)
    /\ Len(outbox) <= Cardinality({t \in 1..Len(task) : task[t].msg.kind = "request"})
    /\ Len(localRequests) <= Cardinality({t \in 1..Len(task) : task[t].msg.kind = "request"})

\* An inbound response was dropped and an inbound request was answered once.
C6_Witness ==
    \E t, u \in 1..Len(task) :
        /\ task[t].msg.kind = "response" /\ task[t].pc = "done"
        /\ task[u].msg.kind = "request" /\ task[u].pc = "done"
        /\ Cardinality(RepliesFor(u)) = 1

\* C7: reply correlation: every response carries the transaction id of the
\* request that triggered it, the relay obtained by adjusting a clone of that
\* request's relay, and the origin key of that request, also when several
\* requests are in flight; the inbound context is never changed.
C7_ReplyCorrelation ==
    /\ [](\A i \in 1..Len(outbox) :
             LET c == task[outbox[i].for].ctx
             IN /\ outbox[i].tx_id = c.tx_id
                /\ Some(outbox[i].relay) = AdjustRelay(c.relay)
                /\ Some(outbox[i].to) = c.pubkey)
    /\ [][\A t \in 1..Len(task) : task'[t].ctx = task[t].ctx]_vars

\* Two requests under different contexts were in flight together and answered
\* in the reverse of their arrival order.
C7_Witness ==
    /\ Len(outbox) = 2
    /\ outbox[1].for = 2
    /\ outbox[2].for = 1
    /\ outbox[1].tx_id # outbox[2].tx_id
    /\ outbox[1].to # outbox[2].to

\* The events received so far, in the order the recvs completed.
Received == [i \in 1..Len(recvLog) |-> recvLog[i].ev]

\* C10: delivery is FIFO across all producers: events are received in the order
\* their sends completed, and every sent event is either still queued or was
\* received by exactly one recv.
C10_Fifo == Received \o queue = sentLog

\* Both sender handles have sent, both receiver handles have received, and an
\* event is still queued.
C10_Witness ==
    /\ Len(recvLog) >= 2
    /\ recvLog[1].by # recvLog[2].by
    /\ recvLog[1].ev # recvLog[2].ev
    /\ queue # <<>>

\* C11: the blocking contract: new(capacity) yields a queue, which starts empty
\* and never holds more than capacity events; a send pending on a full queue
\* stays pending with its event (neither failed nor dropped); send fails only
\* when every receiver handle has been dropped, recv only when every sender
\* handle has been dropped and nothing is queued; while the AcChannel value is
\* alive its own send and recv never fail.
C11_BlockingContract ==
    /\ bounded.result = "ok"
    /\ Len(queue) <= bounded.buffer
    /\ nsends = Len(sentLog)
                + Cardinality({p \in Senders : sending[p] # NoneV})
                + Cardinality({f \in failures : f.op = "send"})
    /\ \A f \in failures :
          /\ f.op = "send" => ~f.receivers
          /\ f.op = "recv" => (~f.senders /\ f.queued = 0)
    /\ "own" \in alive.snd => \A f \in failures : f.by # "own"

\* C12: start fails if the native stack rejects the configuration: a start that
\* returns success leaves the instance holding a connection and a data channel
\* requested on it (a rejected creation therefore never returns success).
C12_StartFailsOnRejection ==
    (last.op = "start" /\ last.status = "ok") =>
        /\ connection # 0
        /\ \E ch \in ChannelsOnConnection : ch.id = channel

\* The state of the instance and of the native objects behind it.
InstanceState == <<connection, pending_candidates, channel, nconn, nativeChannels,
                   localDescription, remoteDescription, remoteCandidates, slots,
                   raised, discovered>>
\* The operations that need the connection, and those that need the data channel.
ConnectionOps == {"get_offer", "get_answer", "set_local_description",
                  "set_remote_description", "add_ice_candidate", "on_icecandidate",
                  "on_iceconnectionstatechange", "on_datachannel"}
ChannelOps == {"on_message", "on_open"}

\* C13: negotiation operations fail without a connection: called on an instance
\* whose connection is absent, get_offer, get_answer, set_local_description,
\* set_remote_description, add_ice_candidate and the three connection-level
\* registrations return an error and change no state; on_message and on_open
\* return an error (and change nothing) when the instance has no data channel.
C13_FailWithoutConnection ==
    [][Returns =>
         /\ (connection = 0 /\ last'.op \in ConnectionOps) =>
                (last'.status = "err" /\ UNCHANGED InstanceState)
         /\ (channel = 0 /\ last'.op \in ChannelOps) =>
                (last'.status = "err" /\ UNCHANGED InstanceState)]_vars

\* A start that created no connection followed an earlier, successful one, and
\* set_remote_description then failed, leaving the old remote description.
C13_Witness ==
    /\ connection = 0
    /\ nconn >= 1
    /\ IsSome(remoteDescription)
    /\ last.op = "set_remote_description"
    /\ last.status = "err"

\* The handlers that native event number i invoked.
Invoked(i) == IF raised[i].result = "invoked" THEN {raised[i].h} ELSE {}

\* C14: handler invocation count: every native event of a kind a handler is
\* registered for invokes that handler exactly once, also the second and later
\* events of the kind, and no event makes the callback fail.
C14_OncePerEvent ==
    \A i \in 1..Len(raised) :
        /\ Cardinality(Invoked(i)) = 1
        /\ raised[i].result \notin {"throw", "panic"}

\* C15: re-registration overwrites: once a second handler was registered for a
\* kind on the same connection or channel, every later event of that kind
\* invokes the handler registered last and no other, and a slot never holds
\* more than one handler.
C15_ReRegistrationOverwrites ==
    /\ \A i \in 1..Len(raised) :
          raised[i].n >= 2 => Invoked(i) = {raised[i].h}
    /\ \A k \in EventKinds : Len(slots[k]) <= 1

\* The native layer accepted every call of the first i steps of the exchange.
AllAccepted(i) == \A j \in 1..i : exchange.log[j].accepted
\* Step i of the exchange was taken with every native call so far accepted.
Reached(i) == Len(exchange.log) >= i /\ AllAccepted(i)
\* The text of an installed description.
DescriptionText(d) == to_string(Unwrap(d))

\* C16: end-to-end signed handshake: A.start, A.get_handshake_info(Offer),
\* B.start, B.register_remote_info, B.get_handshake_info(Answer),
\* A.register_remote_info, with every native call accepted: each step succeeds,
\* the sdp of each envelope is the local description of its sender, B's remote
\* description is A's offer, A's remote description is B's answer.
C16_EndToEnd ==
    /\ \A i \in 1..Len(exchange.log) :
          AllAccepted(i) => exchange.log[i].status = "ok"
    /\ Reached(2) =>
          /\ IsSome(exchange.peer["A"].localDescription)
          /\ Unwrap(exchange.log[2].payload).sdp
                = DescriptionText(exchange.peer["A"].localDescription)
    /\ Reached(4) =>
          /\ IsSome(exchange.peer["B"].remoteDescription)
          /\ DescriptionText(exchange.peer["B"].remoteDescription)
                = Unwrap(exchange.log[2].payload).sdp
    /\ Reached(5) =>
          /\ IsSome(exchange.peer["B"].localDescription)
          /\ Unwrap(exchange.log[5].payload).sdp
                = DescriptionText(exchange.peer["B"].localDescription)
    /\ Reached(6) =>
          /\ IsSome(exchange.peer["A"].remoteDescription)
          /\ DescriptionText(exchange.peer["A"].remoteDescription)
                = Unwrap(exchange.log[5].payload).sdp

\* C17: get_handshake_info with a kind other than Offer or Answer fails at
\* once: it returns an error, makes no native call (no description is created),
\* leaves the local description and the rest of the instance as they were, and
\* produces and signs no envelope.
C17_UnsupportedKind ==
    [][(Returns /\ last'.op = "get_handshake_info"
          /\ last'.kind \notin {"offer", "answer"})
       => /\ last'.status = "err"
          /\ last'.calls = <<>>
          /\ last'.payload = NoneV
          /\ last'.encoded = NoneV
          /\ UNCHANGED InstanceState]_vars

\* A rollback was asked for on a started instance that holds a local
\* description from an earlier offer, and was refused.
C17_Witness ==
    /\ last.op = "get_handshake_info"
    /\ last.kind = "rollback"
    /\ last.status = "err"
    /\ connection # 0
    /\ IsSome(localDescription)

\* C18: offer / answer creation is coupled to the local description: when
\* get_offer or get_answer returns success, the connection's local description
\* is the returned description; when the native create call or the
\* set_local_description that follows is rejected, the call returns an error,
\* and no failed call returns a description.
C18_OfferInstalled ==
    [][(Returns /\ last'.op \in {"get_offer", "get_answer"}) =>
         /\ last'.status = "ok" =>
               (IsSome(last'.returned) /\ localDescription' = last'.returned)
         /\ last'.status # "ok" => last'.returned = NoneV
         /\ \A i \in 1..Len(last'.native) :
               last'.native[i] = "reject" => last'.status = "err"]_vars

\* An answer was created but its installation was rejected: get_answer failed
\* and the local description is still the offer installed before.
C18_Witness ==
    /\ last.op = "get_answer"
    /\ last.status = "err"
    /\ Len(last.calls) = 2
    /\ last.native = <<"ok", "reject">>
    /\ localDescription = Some(JsStr("sdpA"))
    /\ last.calls[2].arg = "sdpB"

\* The native calls that apply candidates cs, one call each, in order.
AddCalls(cs) == [j \in 1..Len(cs) |-> NativeCall("add_ice_candidate", cs[j])]

\* C19: fail-fast candidate application: for a verified payload with candidates
\* c1..cn, register_remote_info sets the remote description first and then
\* applies the candidates in payload order; if ck is the first the native layer
\* rejects, the call returns an error having applied exactly c1..c(k-1), it
\* does not try c(k+1)..cn, and neither the remote description nor the
\* candidates applied are rolled back; if set_remote_description is rejected no
\* candidate is applied.
C19_FailFast ==
    /\ [][(Returns /\ last'.op = "register_remote_info"
            /\ last'.verify = "true" /\ connection # 0 /\ last'.status # "panic")
         => LET p == Unwrap(last'.signed)
                cs == p.candidates
                all == <<NativeCall("set_remote_description", p.sdp)>> \o AddCalls(cs)
                nat == last'.native
                rejected == {i \in 1..Len(nat) : nat[i] = "reject"}
            IN \* the description first, then the candidates in payload order
               /\ Len(nat) <= Len(all)
               /\ last'.calls = SubSeq(all, 1, Len(nat))
               \* every call accepted: all of them made, Ok
               /\ rejected = {} => (last'.status = "ok" /\ Len(nat) = Len(all))
               \* a rejection is the last call made, and the call fails there
               \* with nothing taken back
               /\ rejected # {} =>
                     /\ rejected = {Len(nat)}
                     /\ last'.status = "err"
                     /\ UNCHANGED <<remoteDescription, remoteCandidates>>]_vars
    \* what a call in flight installs stays: an accepted description replaces
    \* the remote description, an accepted candidate joins the applied ones
    /\ [][~Quiet =>
            /\ IsSome(remoteDescription) => IsSome(remoteDescription')
            /\ \/ remoteCandidates' = remoteCandidates
               \/ \E c \in Callers :
                     /\ Awaits(c, "add_ice_candidate")
                     /\ remoteCandidates'
                           = Append(remoteCandidates, Unwrap(inflight[c]).arg)]_vars

\* The first of two candidates was rejected: the call failed, the new remote
\* description stays, and the second candidate was never handed over.
C19_Witness ==
    /\ last.op = "register_remote_info"
    /\ last.status = "err"
    /\ last.native = <<"ok", "reject">>
    /\ Len(Unwrap(last.signed).candidates) = 2
    /\ Len(last.calls) = 2
    /\ remoteDescription = Some(JsStr(Unwrap(last.signed).sdp))
    /\ remoteCandidates = <<>>

\* C20: no local candidate is lost to the snapshot race: a candidate the native
\* layer discovered by the time of a get_handshake_info call is in the payload
\* of that call (one discovered later is in the next call's); the pending
\* candidates only grow, and get_handshake_info does not change them.
C20_NoCandidateLost ==
    /\ []((last.op = "get_handshake_info" /\ last.status = "ok") =>
            \A i \in 1..Len(last.discovered) :
               \E j \in 1..Len(Unwrap(last.payload).candidates) :
                  Unwrap(last.payload).candidates[j] = last.discovered[i])
    /\ [][/\ Len(pending_candidates') >= Len(pending_candidates)
           /\ SubSeq(pending_candidates', 1, Len(pending_candidates)) = pending_candidates
           /\ (\E o \in Building : o.op = "get_handshake_info") =>
                 pending_candidates' = pending_candidates]_vars

\* Two texts are the same when letter case is ignored: A..Z and a..z pair up,
\* every other character equals only itself.
SameIgnoringCase(a, b) ==
    /\ Len(a) = Len(b)
    /\ \A i \in 1..Len(a) :
          \/ a[i] = b[i]
          \/ \E j \in 1..Len(LowerAlphabet) :
                {a[i], b[i]} = {LowerAlphabet[j], UpperAlphabet[j]}
NamesAMethod(t) == \E m \in Methods : SameIgnoringCase(t, m)
\* The request of a call is refused before anything is issued: its method names
\* none of the nine, or one of its headers has an invalid name or value.
InvalidRequest(req) == ~NamesAMethod(req.method) \/ FirstBadHeader(req.headers) # 0
ErrorTexts ==
    {"Invalid HTTP method", "Invalid header name", "Invalid header value",
     "send error", "body error", "timed out"}

\* C21: service execution errors become a 500 reply: whenever execute fails,
\* the dispatcher sends a response with status 500, empty headers and the error
\* text as body; for an invalid method or header no request is issued to the
\* local service; when execution succeeds, the response's status and body are
\* those the local service returned.
C21_ErrorsBecome500 ==
    \A t \in 1..Len(task) :
        (configured(http_server) /\ task[t].msg.kind = "request"
         /\ IsSome(task[t].relay)) =>
            /\ (Finished(t) /\ task[t].failed) =>
                  \E i \in RepliesFor(t) :
                      /\ outbox[i].payload.status = 500
                      /\ outbox[i].payload.headers = <<>>
                      /\ outbox[i].payload.body \in ErrorTexts
                      /\ Some(outbox[i].payload) = task[t].resp
            /\ InvalidRequest(Unwrap(task[t].msg.req)) => task[t].request = NoneV
            /\ (Finished(t) /\ IsSome(task[t].served)) =>
                  \E i \in RepliesFor(t) :
                      /\ outbox[i].payload.status = Unwrap(task[t].served).status
                      /\ outbox[i].payload.body = Unwrap(task[t].served).body

\* C22: the dispatcher never aborts: for every relay context and every inbound
\* payload custom_message terminates normally (no call ends in a panic), and a
\* failure shows to the remote peer only as a synthesized error response or as
\* no reply at all.
C22_NeverAborts ==
    \A t \in 1..Len(task) :
        /\ task[t].pc # "panicked"
        /\ \A i \in RepliesFor(t) :
              task[t].failed => outbox[i].payload = ErrorResponse(outbox[i].payload.body)

\* The messages the data channel delivered to an installed handler, in order.
Delivered == SelectSeq(raised, LAMBDA r : r.kind = "message")

\* C23: message callback to event channel: with a message handler installed,
\* every inbound data-channel message, whatever its content, results in
\* exactly one ReceiveMsg event carrying that message on the instance's
\* signaler channel, and the events are in the order the messages arrived.
C23_MessageToEvent ==
    /\ Len(signaler) = Len(Delivered)
    /\ \A i \in 1..Len(Delivered) :
          /\ Delivered[i].result = "invoked"
          /\ i <= Len(signaler) => signaler[i] = ReceiveMsg(Delivered[i].ev.s)

\* The request of call t ran into the timeout.
TimedOut(t) == task[t].resp = Some(ErrorResponse("timed out"))
\* Call t is at an await inside execute.
Executing(t) == t <= Len(task) /\ task[t].pc \in {"await_send", "await_body"}

\* C24: bounded HTTP execution: for a well-formed request with a configured
\* local service handling always terminates, and when the local service never
\* answers, so that the request's timeout elapses, the call ends with a
\* status-500 response sent to the origin.
C24_BoundedExecution ==
    \A t \in 1..Len(task) :
        (Finished(t) /\ TimedOut(t)) =>
            /\ task[t].pc = "done"
            /\ \E i \in RepliesFor(t) : outbox[i].payload.status = 500

====
